---- MODULE Spec2Model ----
(***************************************************************************)
(* A model of src/src/sandbox.rs: the Sandbox grid, the three passes of    *)
(* Sandbox::update (movement, thermal diffusion, interaction) and          *)
(* Sandbox::render.  The grid is scaled down; everything else follows the  *)
(* source line by line.  The behaviour hooks (crate::behavior) are not     *)
(* part of sandbox.rs and are modelled from their call contract.           *)
(***************************************************************************)
EXTENDS Integers, Sequences, FiniteSets, TLC

\* ------------------------------------------------------------------ sizes
\* The grid, scaled down from 600 x 400.  The height stays even, as in the
\* source, because the noise field of render() has 2W x (H/2) samples.
SIMULATION_WIDTH == 2
HalfHeight == 1
SIMULATION_HEIGHT == 2 * HalfHeight

Xs == 0 .. (SIMULATION_WIDTH - 1)
Ys == 0 .. (SIMULATION_HEIGHT - 1)
Coords == Xs \X Ys
NumCells == SIMULATION_WIDTH * SIMULATION_HEIGHT

InBounds(x, y) == x \in Xs /\ y \in Ys

\* ---------------------------------------------------------------- integers
I16Min == -32768
I16Max == 32767
U8Max == 255

\* An i16 sum that stops at the ends of the range.
SaturateI16(v) == IF v > I16Max THEN I16Max ELSE IF v < I16Min THEN I16Min ELSE v

FitsI16(v) == v >= I16Min /\ v <= I16Max
\* Two's-complement wrap of v to 16 bits (a build without overflow checks).
WrapI16(v) == ((v + 32768) % 65536) - 32768

\* The truncated quotient with its sign reversed (b > 0).
ReversedDiv(a, b) == IF a >= 0 THEN -(a \div b) ELSE (-a) \div b

\* A quotient rounded down instead (b > 0).
FloorDiv(a, b) == a \div b

\* Rust's integer `/`: the quotient truncated toward zero (b > 0 here).
TruncDiv(a, b) == IF a >= 0 THEN a \div b ELSE -((-a) \div b)

\* ---------------------------------------------------------------- particles
ParticleType ==
    {"Sand", "WetSand", "Water", "Acid", "Iridium", "Replicator", "Plant",
     "Cryotheum", "Unstable", "Electricity", "Glass"}

\* Option<Particle>: None is the empty sequence, Some(p) is <<p>>.
None == << >>
Some(p) == << p >>
IsSome(c) == c # << >>
Unwrap(c) == c[1]

\* Particle::new; seed is the rand draw gen_range(5, 21) used for a Plant.
NewTempature(ptype) ==
    CASE ptype = "WetSand" -> -5
      [] ptype = "Water" -> -10
      [] ptype = "Cryotheum" -> -60
      [] OTHER -> 0

ParticleNew(ptype, seed) ==
    [ptype |-> ptype,
     tempature |-> NewTempature(ptype),
     extra_data1 |-> IF ptype = "Plant" THEN seed ELSE 0,
     extra_data2 |-> 0,
     last_update |-> 0]

\* A particle whose public fields a caller or a hook has set.
WithTemp(p, t) == [p EXCEPT !.tempature = t]

EmptyGrid == [x \in Xs |-> [y \in Ys |-> None]]
AllNone(grid) == \A c \in Coords : grid[c[1]][c[2]] = None

\* ------------------------------------------------------------------- state
VARIABLES
    cells,           \* Sandbox.cells[x][y] : Option<Particle>
    update_counter,  \* Sandbox.update_counter : u8
    cells_copy,      \* update()'s local snapshot taken before the diffusion
    before,          \* history: the grid when update() was called
    pc,              \* where the running call is
    cursor,          \* the sweep's position, as a linear index
    panic,           \* "" or the reason the call panicked
    frame,           \* render()'s caller-owned byte buffer
    frame_index,     \* render()'s local
    noise_index,     \* render()'s local
    sample,          \* noise[noise_index] of the pixel rendered last
    noise_intensity, \* render()'s local, as computed last
    written,         \* history: how often render() wrote each byte
    ident,           \* history: which particle sits in which cell
    moved,           \* history: move dispatches per particle, this update
    reacted,         \* history: reaction dispatches per particle, this update
    prev_counter,    \* history: update_counter before its last increment
    increments,      \* history: increments applied by the running update()
    skipped,         \* history: stamps of the particles a pass skipped
    passed,          \* history: <<pass, particle>> for every skip, this update
    phases,          \* history: what the running update() has done, in order
    dispatched       \* history: the last dispatch of the movement pass

vars == <<cells, update_counter, cells_copy, before, pc, cursor, panic, frame,
          frame_index, noise_index, sample, noise_intensity, written, ident, moved, reacted,
          prev_counter, increments, skipped, passed, phases, dispatched>>

renderVars == <<frame, frame_index, noise_index, sample, noise_intensity,
                written>>
histVars == <<before, ident, moved, reacted, prev_counter, increments, skipped,
              passed, phases, dispatched>>

\* ----------------------------------------------------------- thermal pass
\* The table with one entry mistyped as 1.
ConductivityTableTypo(ptype) ==
    CASE ptype = "Sand" -> 3
      [] ptype = "WetSand" -> 4
      [] ptype = "Water" -> 5
      [] ptype = "Acid" -> 1
      [] ptype = "Iridium" -> 8
      [] ptype = "Replicator" -> 3
      [] ptype = "Plant" -> 3
      [] ptype = "Cryotheum" -> 2
      [] ptype = "Unstable" -> 2
      [] ptype = "Electricity" -> 2
      [] ptype = "Glass" -> 3

\* The match of thermal_conductivity.
ConductivityTable(ptype) ==
    CASE ptype = "Sand" -> 3
      [] ptype = "WetSand" -> 4
      [] ptype = "Water" -> 5
      [] ptype = "Acid" -> 2
      [] ptype = "Iridium" -> 8
      [] ptype = "Replicator" -> 3
      [] ptype = "Plant" -> 3
      [] ptype = "Cryotheum" -> 2
      [] ptype = "Unstable" -> 2
      [] ptype = "Electricity" -> 2
      [] ptype = "Glass" -> 3

\* assert!(tc > 1)
ConductivityAssert(ptype) == ConductivityTable(ptype) > 1

thermal_conductivity(ptype) == ConductivityTable(ptype)

\* The flow computed from the live grid instead of the snapshot.
FlowTempatureLive(copy, live, x, y) == Unwrap(live[x][y]).tempature

\* The temperature a flow is computed from: particle1 is read from cells_copy.
FlowTempature(copy, live, x, y) == Unwrap(copy[x][y]).tempature

\* A write of the temperature that also resets the stamp.
SetTempatureAndStamp(grid, x, y, t) ==
    [grid EXCEPT ![x][y] =
        Some([Unwrap(grid[x][y]) EXCEPT !.tempature = t, !.last_update = 0])]

\* Lines 96-97: `.tempature -= ..` and `.tempature += ..`.
SetTempature(grid, x, y, t) ==
    [grid EXCEPT ![x][y] = Some([Unwrap(grid[x][y]) EXCEPT !.tempature = t])]

\* The four neighbour tests in the order of the source: (x, y+1), (x+1, y),
\* (x, y-1), (x-1, y).  Each guard of the source (y != H-1, x != W-1, y != 0,
\* x != 0) is the neighbour being in bounds.
Directions == << <<0, 1>>, <<1, 0>>, <<0, -1>>, <<-1, 0>> >>

\* One `if let Some(particle2) = &self.cells[..]` block.  st is the running
\* [grid, panic]; checks says whether the build checks arithmetic overflow
\* (it then panics) or wraps.
Transfer(st, copy, x, y, d, checks) ==
    LET nx == x + Directions[d][1]
        ny == y + Directions[d][2]
    IN  IF st.panic # "" \/ ~InBounds(nx, ny) THEN st
        ELSE IF ~IsSome(st.grid[nx][ny]) THEN st
        ELSE
          LET p1 == Unwrap(copy[x][y])
              p2 == Unwrap(st.grid[nx][ny])
          IN  IF ~ConductivityAssert(p1.ptype) \/ ~ConductivityAssert(p2.ptype)
              THEN [st EXCEPT !.panic = "assert"]
              ELSE IF ~IsSome(st.grid[x][y])
              THEN [st EXCEPT !.panic = "unwrap"]
              ELSE
                LET tc == thermal_conductivity(p1.ptype)
                            + thermal_conductivity(p2.ptype)
                    t == TruncDiv(FlowTempature(copy, st.grid, x, y), tc)
                    a == Unwrap(st.grid[x][y]).tempature - t
                    g1 == SetTempature(st.grid, x, y, WrapI16(a))
                    b == Unwrap(g1[nx][ny]).tempature + t
                    g2 == SetTempature(g1, nx, ny, WrapI16(b))
                IN  IF checks /\ ~FitsI16(a)
                    THEN [st EXCEPT !.panic = "overflow"]
                    ELSE IF checks /\ ~FitsI16(b)
                    THEN [grid |-> g1, panic |-> "overflow"]
                    ELSE [grid |-> g2, panic |-> ""]

\* The body of the two loops for one (x, y).
DiffuseCell(st, copy, x, y, checks) ==
    IF ~IsSome(copy[x][y]) THEN st
    ELSE Transfer(Transfer(Transfer(Transfer(st, copy, x, y, 1, checks),
                                    copy, x, y, 2, checks),
                           copy, x, y, 3, checks),
                  copy, x, y, 4, checks)

\* The x-major, y-minor sweep: linear index i visits (i div H, i mod H).
SweepX(i) == i \div SIMULATION_HEIGHT
SweepY(i) == i % SIMULATION_HEIGHT

RECURSIVE DiffuseFrom(_, _, _, _)
DiffuseFrom(st, copy, i, checks) ==
    IF i >= NumCells THEN st
    ELSE DiffuseFrom(DiffuseCell(st, copy, SweepX(i), SweepY(i), checks),
                     copy, i + 1, checks)

\* Lines 87-129: the snapshot and the whole sweep.
Diffuse(grid, checks) ==
    DiffuseFrom([grid |-> grid, panic |-> ""], grid, 0, checks)


\* ------------------------------------------------------ generation counter
\* u8::wrapping_add(1): 255 goes to 0.
IncrementWrapping(c) == (c + 1) % (U8Max + 1)

\* self.update_counter.checked_add(1).unwrap_or(1)
Increment(c) == IF c < U8Max THEN c + 1 ELSE 1

\* `particle.last_update != self.update_counter`: the pass handles the particle.
NotYetUpdated(p, counter) == p.last_update # counter

\* `if let Some(particle) = &self.cells[x][y]`
Occupied(grid, x, y) == IsSome(grid[x][y])

\* --------------------------------------------------------- behaviour hooks
\* crate::behavior is not in sandbox.rs.  A hook is modelled by its contract:
\* it gets (sandbox, x, y), may change the grid, and a move hook returns the
\* coordinates it claims the particle ended at.  The kinds of a hook's
\* behaviour a specification allows are a parameter of the step.
\*   stay      the grid is untouched and (x, y) is returned
\*   relocate  the particle goes to an empty cell next to it, which is returned
\*   clear     the hook empties its own cell and returns (x, y)
\*   astray    the grid is untouched and coordinates past the grid's edge are
\*             returned
\*   swap      the particle changes places with a particle next to it and its
\*             new coordinates are returned
\* Hooks that keep the contract of a move relocate nothing but their own
\* particle; a reaction is confined to the grid.
ContractMoves == {"stay", "relocate"}
BrokenMoves == {"stay", "relocate", "clear", "astray"}
SwapMoves == {"stay", "swap"}
SwapReactions == {"stay", "swap"}
GridReactions == {"stay", "relocate", "clear"}
QuietReactions == {"stay", "clear"}
StillReactions == {"stay"}

\* The cells next to (x, y), diagonals included.
Around(x, y) ==
    {c \in Coords : c # <<x, y>> /\ c[1] - x \in -1 .. 1 /\ c[2] - y \in -1 .. 1}

SwapCells(grid, x, y, c) ==
    [i \in Xs |-> [j \in Ys |->
        IF <<i, j>> = c THEN grid[x][y]
        ELSE IF <<i, j>> = <<x, y>> THEN grid[c[1]][c[2]]
        ELSE grid[i][j]]]

MoveCell(grid, x, y, c, empty) ==
    [i \in Xs |-> [j \in Ys |->
        IF <<i, j>> = c THEN grid[x][y]
        ELSE IF <<i, j>> = <<x, y>> THEN empty
        ELSE grid[i][j]]]

\* What a hook may leave behind, as [grid, ident, pos, kind].
HookOutcomes(kinds, grid, idg, x, y) ==
    {[grid |-> grid, ident |-> idg, pos |-> <<x, y>>, kind |-> "stay"] :
        k \in kinds \cap {"stay"}}
    \cup
    {[grid |-> MoveCell(grid, x, y, c, None),
      ident |-> MoveCell(idg, x, y, c, 0),
      pos |-> c, kind |-> "relocate"] :
        c \in {d \in Around(x, y) :
                 "relocate" \in kinds /\ ~IsSome(grid[d[1]][d[2]])}}
    \cup
    {[grid |-> [grid EXCEPT ![x][y] = None],
      ident |-> [idg EXCEPT ![x][y] = 0],
      pos |-> <<x, y>>, kind |-> "clear"] :
        k \in kinds \cap {"clear"}}
    \cup
    {[grid |-> SwapCells(grid, x, y, c),
      ident |-> SwapCells(idg, x, y, c),
      pos |-> c, kind |-> "swap"] :
        c \in {d \in Around(x, y) :
                 "swap" \in kinds /\ IsSome(grid[d[1]][d[2]])}}
    \cup
    {[grid |-> grid, ident |-> idg, pos |-> c, kind |-> "astray"] :
        c \in {d \in {<<SIMULATION_WIDTH, y>>, <<x, SIMULATION_HEIGHT>>} :
                 "astray" \in kinds}}

\* ------------------------------------------------------------ movement pass
\* The loops `for x in 0..W { for y in 0..H { if let Some(..) = .. ` of
\* a pass: from linear index i on, the first cell that holds a particle, or
\* NumCells when the loops end.  The body does nothing for an empty cell.
RECURSIVE NextCell(_, _)
NextCell(grid, i) ==
    IF i >= NumCells THEN NumCells
    ELSE IF Occupied(grid, SweepX(i), SweepY(i)) THEN i
    ELSE NextCell(grid, i + 1)

\* The dispatch with Glass flowing only above 30.
MoveHookGlassAbove(p) ==
    CASE p.ptype = "Sand" -> "move_powder"
      [] p.ptype \in {"WetSand", "Cryotheum"} -> "move_solid"
      [] p.ptype \in {"Water", "Acid"} -> "move_liquid"
      [] p.ptype \in {"Iridium", "Replicator", "Unstable"} -> "none"
      [] p.ptype = "Plant" ->
            IF p.extra_data2 = 0 THEN "move_powder" ELSE "none"
      [] p.ptype = "Electricity" -> "move_electricity"
      [] p.ptype = "Glass" ->
            IF p.tempature > 30 THEN "move_liquid" ELSE "move_solid"

\* The match of lines 32-58: the move hook the particle is dispatched to.
MoveHook(p) ==
    CASE p.ptype = "Sand" -> "move_powder"
      [] p.ptype = "WetSand" -> "move_solid"
      [] p.ptype = "Water" -> "move_liquid"
      [] p.ptype = "Acid" -> "move_liquid"
      [] p.ptype = "Iridium" -> "none"
      [] p.ptype = "Replicator" -> "none"
      [] p.ptype = "Plant" ->
            IF p.extra_data2 = 0 THEN "move_powder" ELSE "none"
      [] p.ptype = "Cryotheum" -> "move_solid"
      [] p.ptype = "Unstable" -> "none"
      [] p.ptype = "Electricity" -> "move_electricity"
      [] p.ptype = "Glass" ->
            IF p.tempature >= 30 THEN "move_liquid" ELSE "move_solid"

\* The dispatch of one particle: every [grid, ident, pos] the hook may leave.
MoveDispatch(kinds, grid, idg, x, y) ==
    IF MoveHook(Unwrap(grid[x][y])) = "none"
    THEN {[grid |-> grid, ident |-> idg, pos |-> <<x, y>>, kind |-> "none"]}
    ELSE HookOutcomes(kinds, grid, idg, x, y)

\* Returned coordinates pulled back into the grid before the stamp.
StampPositionClamped(x, y, pos) ==
    <<IF pos[1] < SIMULATION_WIDTH THEN pos[1] ELSE SIMULATION_WIDTH - 1,
      IF pos[2] < SIMULATION_HEIGHT THEN pos[2] ELSE SIMULATION_HEIGHT - 1>>

\* Lines 59-62: the cell the stamp is written to.
StampPosition(x, y, pos) == pos

\* How many particles carry the stamp of generation g.
StampCount(grid, g) ==
    Cardinality({c \in Coords :
        IsSome(grid[c[1]][c[2]]) /\ Unwrap(grid[c[1]][c[2]]).last_update = g})

\* No stamp is written.
StampNothing(grid, pos, counter) == grid

\* A stamp that writes the generation before the current one.
StampPrevious(grid, pos, counter) ==
    [grid EXCEPT ![pos[1]][pos[2]] =
        Some([Unwrap(grid[pos[1]][pos[2]]) EXCEPT !.last_update = counter - 1])]

\* Lines 59-62: stamp the particle at the returned coordinates.
Stamp(grid, pos, counter) ==
    [grid EXCEPT ![pos[1]][pos[2]] =
        Some([Unwrap(grid[pos[1]][pos[2]]) EXCEPT !.last_update = counter])]

\* Why lines 59-62 panic, or "".
StampPanic(grid, pos) ==
    IF ~InBounds(pos[1], pos[2]) THEN "index"
    ELSE IF ~IsSome(grid[pos[1]][pos[2]]) THEN "unwrap"
    ELSE ""

Bump(counts, id) == [counts EXCEPT ![id] = @ + 1]

NoCounts == [i \in 1 .. NumCells |-> 0]

\* The log of the running call: one entry per phase, a sweep's dispatches
\* being one entry however many there are.
Record(log, what) ==
    IF what # "increment" /\ log # <<>> /\ log[Len(log)] = what
    THEN log ELSE Append(log, what)

\* Each particle is named after the cell it is in when update() is called.
NameCells(grid) ==
    [x \in Xs |-> [y \in Ys |->
        IF IsSome(grid[x][y]) THEN x * SIMULATION_HEIGHT + y + 1 ELSE 0]]

\* Line 26: the increment that starts update() and its movement pass.
BeginUpdate ==
    /\ pc = "idle" /\ panic = ""
    /\ update_counter' = Increment(update_counter)
    /\ prev_counter' = update_counter
    /\ increments' = 1
    /\ pc' = "move"
    /\ cursor' = NextCell(cells, 0)
    /\ moved' = NoCounts
    /\ reacted' = NoCounts
    /\ skipped' = {}
    /\ passed' = {}
    /\ before' = cells
    /\ ident' = NameCells(cells)
    /\ phases' = <<"increment">>
    /\ dispatched' = <<>>
    /\ UNCHANGED <<cells, cells_copy, panic, renderVars>>

\* Lines 27-66: the body of the movement loops for one (x, y).
MoveStep(kinds) ==
    /\ pc = "move" /\ panic = "" /\ cursor < NumCells
    /\ LET x == SweepX(cursor)
           y == SweepY(cursor)
       IN  IF Occupied(cells, x, y)
           THEN IF NotYetUpdated(Unwrap(cells[x][y]), update_counter)
                THEN \E o \in MoveDispatch(kinds, cells, ident, x, y) :
                        LET at == StampPosition(x, y, o.pos)
                            why == StampPanic(o.grid, at)
                        IN  /\ panic' = why
                            /\ cells' = IF why = "" THEN Stamp(o.grid, at, update_counter)
                                        ELSE o.grid
                            /\ ident' = o.ident
                            /\ moved' = IF o.kind = "none" THEN moved
                                        ELSE Bump(moved, ident[x][y])
                            /\ phases' = Record(phases, "move")
                            /\ dispatched' =
                                  <<[particle |-> Unwrap(cells[x][y]),
                                     hook |-> MoveHook(Unwrap(cells[x][y])),
                                     from |-> <<x, y>>,
                                     pos |-> o.pos,
                                     id |-> ident[x][y],
                                     stamps |-> StampCount(cells, update_counter)]>>
                            /\ UNCHANGED <<skipped, passed>>
                ELSE /\ skipped' = skipped \cup {Unwrap(cells[x][y]).last_update}
                     /\ passed' = passed \cup {<<"move", ident[x][y]>>}
                     /\ UNCHANGED <<cells, ident, moved, panic, phases,
                                    dispatched>>
           ELSE UNCHANGED <<cells, ident, moved, panic, skipped, passed, phases,
                            dispatched>>
    /\ cursor' = NextCell(cells', cursor + 1)
    /\ UNCHANGED <<pc, update_counter, cells_copy, before, reacted, prev_counter,
                   increments, renderVars>>

\* The diffusion pass run without waiting for the movement sweep to end.
DiffusionPassEarly ==
    /\ pc = "move" /\ panic = ""
    /\ \E checks \in BOOLEAN :
         LET r == Diffuse(cells, checks)
         IN  /\ cells' = r.grid
             /\ panic' = r.panic
    /\ cells_copy' = cells
    /\ pc' = "diffused"
    /\ cursor' = NumCells
    /\ phases' = Record(phases, "diffuse")
    /\ dispatched' = <<>>
    /\ UNCHANGED <<update_counter, before, ident, moved, reacted,
                   prev_counter, increments, skipped, passed, renderVars>>

\* Lines 87-129: the snapshot and the diffusion sweep.  The build either
\* checks arithmetic overflow (and panics) or wraps.
DiffusionPass ==
    /\ pc = "move" /\ cursor = NumCells /\ panic = ""
    /\ \E checks \in BOOLEAN :
         LET r == Diffuse(cells, checks)
         IN  /\ cells' = r.grid
             /\ panic' = r.panic
    /\ cells_copy' = cells
    /\ pc' = "diffused"
    /\ phases' = Record(phases, "diffuse")
    /\ dispatched' = <<>>
    /\ UNCHANGED <<update_counter, cursor, before, ident, moved, reacted,
                   prev_counter, increments, skipped, passed, renderVars>>

\* The interaction pass started without its increment.
BeginInteractSameGeneration ==
    /\ pc = "diffused" /\ panic = ""
    /\ pc' = "interact"
    /\ cursor' = NextCell(cells, 0)
    /\ UNCHANGED <<cells, cells_copy, update_counter, panic, histVars,
                   renderVars>>

\* Line 132: the increment that starts the interaction pass.
BeginInteract ==
    /\ pc = "diffused" /\ panic = ""
    /\ update_counter' = Increment(update_counter)
    /\ prev_counter' = update_counter
    /\ increments' = increments + 1
    /\ pc' = "interact"
    /\ cursor' = NextCell(cells, 0)
    /\ phases' = Record(phases, "increment")
    /\ UNCHANGED <<cells, cells_copy, before, panic, ident, moved, reacted,
                   skipped, passed, dispatched, renderVars>>

\* The match of lines 137-149: the reaction hook of a type.
ReactHook(ptype) ==
    CASE ptype = "Sand" -> "update_sand"
      [] ptype = "WetSand" -> "none"
      [] ptype = "Water" -> "update_water"
      [] ptype = "Acid" -> "update_acid"
      [] ptype = "Iridium" -> "none"
      [] ptype = "Replicator" -> "update_replicator"
      [] ptype = "Plant" -> "update_plant"
      [] ptype = "Cryotheum" -> "update_cryotheum"
      [] ptype = "Unstable" -> "update_unstable"
      [] ptype = "Electricity" -> "update_electricity"
      [] ptype = "Glass" -> "none"

ReactDispatch(kinds, grid, idg, x, y) ==
    IF ReactHook(Unwrap(grid[x][y]).ptype) = "none"
    THEN {[grid |-> grid, ident |-> idg, pos |-> <<x, y>>, kind |-> "none"]}
    ELSE HookOutcomes(kinds, grid, idg, x, y)

\* Lines 133-153: the body of the interaction loops for one (x, y).  Nothing
\* is stamped here.  After the last cell update() returns.
InteractStep(kinds) ==
    /\ pc = "interact" /\ panic = "" /\ cursor < NumCells
    /\ LET x == SweepX(cursor)
           y == SweepY(cursor)
       IN  IF Occupied(cells, x, y)
           THEN IF NotYetUpdated(Unwrap(cells[x][y]), update_counter)
                THEN \E o \in ReactDispatch(kinds, cells, ident, x, y) :
                        /\ cells' = o.grid
                        /\ ident' = o.ident
                        /\ reacted' = IF o.kind = "none" THEN reacted
                                      ELSE Bump(reacted, ident[x][y])
                        /\ phases' = Record(phases, "react")
                        /\ UNCHANGED <<skipped, passed>>
                ELSE /\ skipped' = skipped \cup {Unwrap(cells[x][y]).last_update}
                     /\ passed' = passed \cup {<<"interact", ident[x][y]>>}
                     /\ UNCHANGED <<cells, ident, reacted, phases>>
           ELSE UNCHANGED <<cells, ident, reacted, skipped, passed, phases>>
    /\ cursor' = NextCell(cells', cursor + 1)
    /\ UNCHANGED <<pc, update_counter, cells_copy, before, panic, moved,
                   prev_counter, increments, dispatched, renderVars>>


\* ------------------------------------------------------------------ render
\* The caller's buffer holds 4 * W * H bytes or more.
FrameSlack == 1
FrameLen == 4 * SIMULATION_WIDTH * SIMULATION_HEIGHT + FrameSlack

\* Line 320: assert!(min <= max) fails, in every build, when min > max.
clampPanics(min, max) == ~(min <= max)

\* The message of the failed assertion of line 320.
AssertFailed == "assertion failed: min <= max"

\* fn clamp(value, min, max): the clamped value, or the panic of line 320.
clamp(value, min, max) ==
    IF clampPanics(min, max)
    THEN AssertFailed
    ELSE LET x == IF value < min THEN min ELSE value
         IN  IF x > max THEN max ELSE x

\* A u8 addition that wraps where saturating_add saturates.
WrappingAdd(a, b) == (a + b) % (U8Max + 1)

\* u8::saturating_add
SaturatingAdd(a, b) == IF a + b > U8Max THEN U8Max ELSE a + b

\* `let mut color: (u8, u8, u8) = (20, 20, 20)`
DefaultColor == <<20, 20, 20>>

\* Lines 172-190.
BaseColor(p) ==
    CASE p.ptype = "Sand" -> <<196, 192, 135>>
      [] p.ptype = "WetSand" -> <<166, 162, 105>>
      [] p.ptype = "Water" -> <<8, 130, 201>>
      [] p.ptype = "Acid" -> <<128, 209, 0>>
      [] p.ptype = "Iridium" -> <<205, 210, 211>>
      [] p.ptype = "Replicator" -> <<68, 11, 67>>
      [] p.ptype = "Plant" ->
            IF p.extra_data1 < 2 THEN <<75, 209, 216>> ELSE <<86, 216, 143>>
      [] p.ptype = "Cryotheum" -> <<12, 191, 201>>
      [] p.ptype = "Unstable" -> <<181, 158, 128>>
      [] p.ptype = "Electricity" -> <<247, 244, 49>>
      [] p.ptype = "Glass" -> <<159, 198, 197>>

\* The intensity with Unstable held to the range of the other types.
NoiseIntensityCapped(p) ==
    CASE p.ptype \in {"Sand", "WetSand", "Replicator", "Cryotheum"} -> 10
      [] p.ptype = "Water" -> 30
      [] p.ptype \in {"Acid", "Glass"} -> 50
      [] p.ptype = "Iridium" -> 0
      [] p.ptype = "Plant" -> IF p.extra_data1 < 2 THEN 10 ELSE 5
      [] p.ptype = "Unstable" ->
            IF p.tempature > 0
            THEN clamp(TruncDiv(10 * p.tempature, 200), 0, 200)
            ELSE 0
      [] p.ptype = "Electricity" -> 200

\* Lines 193-217.  (10.0 * (t as f64 / 200.0)) as i16 is t div 20 for every
\* t in 1 .. 32767.
NoiseIntensity(p) ==
    CASE p.ptype = "Sand" -> 10
      [] p.ptype = "WetSand" -> 10
      [] p.ptype = "Water" -> 30
      [] p.ptype = "Acid" -> 50
      [] p.ptype = "Iridium" -> 0
      [] p.ptype = "Replicator" -> 10
      [] p.ptype = "Plant" -> IF p.extra_data1 < 2 THEN 10 ELSE 5
      [] p.ptype = "Cryotheum" -> 10
      [] p.ptype = "Unstable" ->
            IF p.tempature > 0 THEN TruncDiv(10 * p.tempature, 200) ELSE 0
      [] p.ptype = "Electricity" -> 200
      [] p.ptype = "Glass" -> 50

\* A noise sample is n / NoiseScale, in [-1, 1].
NoiseScale == 4
NoiseSamples == {-NoiseScale, -1, 0, 1, NoiseScale}

\* generate_scaled returns width * height samples: (2 W) * (H / 2).
NoiseLen == (SIMULATION_WIDTH * 2) * (SIMULATION_HEIGHT \div 2)

\* Lines 218-223: (noise[noise_index] * noise_intensity as f32) as i16 added
\* to each channel and clamped.
Jitter(color, intensity, n) ==
    IF intensity # 0
    THEN LET m == TruncDiv(n * intensity, NoiseScale)
         IN  <<clamp(color[1] + m, 0, 255),
               clamp(color[2] + m, 0, 255),
               clamp(color[3] + m, 0, 255)>>
    ELSE color

\* i16::abs: the most negative value has no positive counterpart; it is
\* returned unchanged by a build that does not check overflow.
AbsI16(t) == IF t = I16Min THEN I16Min ELSE IF t < 0 THEN -t ELSE t

\* Lines 225-232.
Tint(color, t) ==
    IF t < 0
    THEN <<color[1], color[2], SaturatingAdd(color[3], clamp(AbsI16(t), 0, 255))>>
    ELSE <<SaturatingAdd(color[1], clamp(t, 0, 255)), color[2], color[3]>>

\* The jitter applied before the occupancy test, so to an empty cell's
\* colour too.
PixelColorJitterAll(cell, n) ==
    IF IsSome(cell)
    THEN Tint(Jitter(BaseColor(Unwrap(cell)), NoiseIntensity(Unwrap(cell)), n),
              Unwrap(cell).tempature)
    ELSE Jitter(DefaultColor, 10, n)

\* Lines 169-233: the colour of one cell, given its noise sample.
PixelColor(cell, n) ==
    IF IsSome(cell)
    THEN Tint(Jitter(BaseColor(Unwrap(cell)), NoiseIntensity(Unwrap(cell)), n),
              Unwrap(cell).tempature)
    ELSE DefaultColor

\* Why the body of the loops panics for this cell, or "".  Every call of
\* clamp in render() passes the bounds 0 and 255 (lines 220-222, 227, 230),
\* so its assertion never fails there.
PixelPanic(cell, fi, ni, checks) ==
    IF IsSome(cell) /\ NoiseIntensity(Unwrap(cell)) # 0 /\ ni >= NoiseLen
    THEN "index"
    ELSE IF IsSome(cell) /\ Unwrap(cell).tempature = I16Min /\ checks
    THEN "overflow"
    ELSE IF IsSome(cell) /\ clampPanics(0, 255) THEN "assert"
    ELSE IF fi + 3 >= FrameLen THEN "index"
    ELSE ""

\* The y-major, x-minor scan of render(): pixel i shows (i mod W, i div W).
ScanX(i) == i % SIMULATION_WIDTH
ScanY(i) == i \div SIMULATION_WIDTH

\* The alpha byte of line 238.
Alpha == 255

\* Lines 235-238.
WritePixel(buf, fi, color) ==
    [i \in DOMAIN buf |->
        IF i = fi THEN color[1]
        ELSE IF i = fi + 1 THEN color[2]
        ELSE IF i = fi + 2 THEN color[3]
        ELSE IF i = fi + 3 THEN Alpha
        ELSE buf[i]]

\* Line 240: `frame_index += 4`.
FrameAdvance(fi) == fi + 4

\* Line 156: what the caller's buffer holds when it is handed to render().
FrameFills == {0, 7}

\* Lines 156-166: the call starts on the caller's buffer; the noise field
\* depends on dt alone.
BeginRender ==
    /\ pc = "idle" /\ panic = ""
    /\ pc' = "render"
    /\ \E b \in FrameFills : frame' = [i \in DOMAIN frame |-> b]
    /\ cursor' = 0
    /\ frame_index' = 0
    /\ noise_index' = 0
    /\ written' = [i \in DOMAIN written |-> 0]
    /\ noise_intensity' = 0
    /\ UNCHANGED <<cells, update_counter, cells_copy, panic, sample,
                   histVars>>

\* Lines 167-243: the body of the loops for one pixel.  n is the sample the
\* noise field holds for it.
RenderStep ==
    /\ pc = "render" /\ panic = "" /\ cursor < NumCells
    /\ \E n \in NoiseSamples : \E checks \in BOOLEAN :
         LET cell == cells[ScanX(cursor)][ScanY(cursor)]
             why == PixelPanic(cell, frame_index, noise_index, checks)
         IN  /\ sample' = n
             /\ noise_intensity' = IF IsSome(cell)
                                   THEN NoiseIntensity(Unwrap(cell))
                                   ELSE noise_intensity
             /\ panic' = why
             /\ IF why = ""
                THEN /\ frame' = WritePixel(frame, frame_index, PixelColor(cell, n))
                     /\ written' = [i \in DOMAIN written |->
                            IF i \in frame_index .. (frame_index + 3)
                            THEN written[i] + 1 ELSE written[i]]
                     /\ frame_index' = FrameAdvance(frame_index)
                     /\ noise_index' = noise_index + 1
                ELSE UNCHANGED <<frame, written, frame_index, noise_index>>
    /\ cursor' = cursor + 1
    /\ pc' = IF cursor + 1 = NumCells THEN "rendered" ELSE "render"
    /\ UNCHANGED <<cells, update_counter, cells_copy, histVars>>

\* --------------------------------------------------------- initial states
\* A grid holding particle f[c] at every c of S.
GridOf(S, f) ==
    [x \in Xs |-> [y \in Ys |->
        IF <<x, y>> \in S THEN Some(f[<<x, y>>]) ELSE None]]

\* Each particle is named after the cell it starts in.
IdentOf(S) ==
    [x \in Xs |-> [y \in Ys |->
        IF <<x, y>> \in S THEN x * SIMULATION_HEIGHT + y + 1 ELSE 0]]

\* The sets of at most k cells.
CellSets(k) == {S \in SUBSET Coords : Cardinality(S) <= k}


\* Everything but the grid, the counter and the position of the call.
InitRest ==
    /\ cells_copy = EmptyGrid
    /\ before = EmptyGrid
    /\ cursor = 0
    /\ panic = ""
    /\ frame = [i \in 0 .. (FrameLen - 1) |-> 0]
    /\ frame_index = 0
    /\ noise_index = 0
    /\ sample = 0
    /\ noise_intensity = 0
    /\ written = [i \in 0 .. (FrameLen - 1) |-> 0]
    /\ moved = NoCounts
    /\ reacted = NoCounts
    /\ prev_counter = 0
    /\ increments = 0
    /\ skipped = {}
    /\ passed = {}
    /\ phases = <<>>
    /\ dispatched = <<>>

\* Particles as a caller places them: Particle::new of every type, a Plant
\* that is growing, and Glass on both sides of its threshold.
FreshParticles ==
    {ParticleNew(t, 5) : t \in ParticleType}
    \cup {[ParticleNew("Plant", 5) EXCEPT !.extra_data2 = 1],
          WithTemp(ParticleNew("Glass", 0), 30),
          WithTemp(ParticleNew("Glass", 0), 29)}

\* Sandbox::new(), then a caller places at most two particles.
Init ==
    /\ \E S \in CellSets(2) : \E f \in [S -> FreshParticles] :
          /\ cells = GridOf(S, f)
          /\ ident = IdentOf(S)
    /\ update_counter = 1
    /\ pc = "idle"
    /\ InitRest

\* One update() with hooks that keep their contract.
Next ==
    \/ BeginUpdate
    \/ MoveStep(ContractMoves)
    \/ DiffusionPass
    \/ BeginInteract
    \/ InteractStep(QuietReactions)

Spec == Init /\ [][Next]_vars

\* One update() whose reaction hooks may also relocate their particle.
NextReact ==
    \/ BeginUpdate
    \/ MoveStep(ContractMoves)
    \/ DiffusionPass
    \/ BeginInteract
    \/ InteractStep(GridReactions)

SpecReact == Init /\ [][NextReact]_vars

\* One update() whose move hooks may break their contract: destroy their
\* particle, or return coordinates outside the grid.
NextBroken ==
    \/ BeginUpdate
    \/ MoveStep(BrokenMoves)
    \/ DiffusionPass
    \/ BeginInteract
    \/ InteractStep(QuietReactions)

SpecBroken == Init /\ [][NextBroken]_vars


\* ------------------------------------------- update() called again and again
\* Between two calls the caller may write a fresh particle into a cell or
\* empty one (Sandbox.cells is pub).  One particle at a time keeps the
\* counter's whole cycle within reach.
CounterTypes == {"Iridium", "Sand"}

Place ==
    /\ pc = "idle" /\ panic = ""
    /\ AllNone(cells)
    /\ \E c \in Coords : \E t \in CounterTypes :
          cells' = [cells EXCEPT ![c[1]][c[2]] = Some(ParticleNew(t, 5))]
    /\ UNCHANGED <<update_counter, cells_copy, pc, cursor, panic, histVars,
                   renderVars>>

Erase ==
    /\ pc = "idle" /\ panic = ""
    /\ \E c \in Coords :
          /\ IsSome(cells[c[1]][c[2]])
          /\ cells' = [cells EXCEPT ![c[1]][c[2]] = None]
    /\ UNCHANGED <<update_counter, cells_copy, pc, cursor, panic, histVars,
                   renderVars>>

\* The interaction loops have ended: update() returns.
Returned == pc = "interact" /\ cursor = NumCells /\ panic = ""

\* update() has returned, its locals are gone, and the caller's loop comes
\* round.
NextCall ==
    /\ Returned
    /\ pc' = "idle"
    /\ cells_copy' = EmptyGrid
    /\ cursor' = 0
    /\ before' = EmptyGrid
    /\ moved' = NoCounts
    /\ reacted' = NoCounts
    /\ skipped' = {}
    /\ passed' = {}
    /\ increments' = 0
    /\ ident' = IdentOf({})
    /\ phases' = <<>>
    /\ dispatched' = <<>>
    /\ UNCHANGED <<cells, update_counter, panic, prev_counter, renderVars>>

\* Sandbox::new().
InitCounter ==
    /\ cells = EmptyGrid
    /\ ident = IdentOf({})
    /\ update_counter = 1
    /\ pc = "idle"
    /\ InitRest

NextCounter ==
    \/ Place
    \/ Erase
    \/ BeginUpdate
    \/ MoveStep(ContractMoves)
    \/ DiffusionPass
    \/ BeginInteract
    \/ InteractStep(StillReactions)
    \/ NextCall

SpecCounter == InitCounter /\ [][NextCounter]_vars

\* update() called again and again on a Sand and a Replicator particle, one
\* above the other in the first column, the hooks of the Sand being free to
\* change places with the other particle.
StaleTypes == {"Sand", "Replicator"}

InitStale ==
    /\ \E S \in {{<<0, 0>>, <<0, 1>>}} :
       \E f \in {g \in [S -> {ParticleNew(t, 5) : t \in StaleTypes}] :
                   \E c, d \in S : g[c].ptype # g[d].ptype} :
          /\ cells = GridOf(S, f)
          /\ ident = IdentOf(S)
    /\ update_counter = 1
    /\ pc = "idle"
    /\ InitRest

NextStale ==
    \/ BeginUpdate
    \/ MoveStep(SwapMoves)
    \/ DiffusionPass
    \/ BeginInteract
    \/ InteractStep(SwapReactions)
    \/ NextCall

SpecStale == InitStale /\ [][NextStale]_vars

\* ------------------------------------------------------- render() alone
\* What render() can meet in a cell: every type, cold and hot, both palette
\* entries of a Plant, and Unstable around the temperature where its noise
\* intensity passes 200.
RenderTemps == {I16Min, -300, -1, 0, 100, 1000, I16Max}
RenderParticles ==
    {WithTemp(ParticleNew(t, s), temp) :
        t \in ParticleType, s \in {5}, temp \in RenderTemps}
    \cup {[WithTemp(ParticleNew("Plant", 5), temp) EXCEPT !.extra_data1 = 1] :
            temp \in RenderTemps}
    \cup {WithTemp(ParticleNew("Unstable", 5), temp) :
            temp \in {3999, 4000, 4019, 4020}}

\* A grid with at most one particle: each pixel is rendered from its own cell.
InitRender ==
    /\ \E S \in CellSets(1) : \E f \in [S -> RenderParticles] :
          /\ cells = GridOf(S, f)
          /\ ident = IdentOf(S)
    /\ update_counter = 1
    /\ pc = "idle"
    /\ InitRest

NextRender ==
    \/ BeginRender
    \/ RenderStep

SpecRender == InitRender /\ [][NextRender]_vars


\* ------------------------------------------------- the diffusion pass alone
\* What the pass can meet: the spec's Water at -10, fresh cold particles,
\* a hot one, and temperatures at the ends of the i16 range.
DiffuseParticles ==
    {[WithTemp(ParticleNew(q[1], 5), q[2]) EXCEPT !.last_update = 2] :
        q \in {<<"Water", -10>>, <<"WetSand", -5>>, <<"Cryotheum", -60>>,
               <<"Sand", 1000>>, <<"Iridium", 77>>, <<"Water", 32766>>,
               <<"Acid", I16Max>>, <<"Unstable", I16Min>>}}

DiffuseRest ==
    /\ cells_copy = EmptyGrid
    /\ before = cells
    /\ cursor = NumCells
    /\ panic = ""
    /\ frame = [i \in 0 .. (FrameLen - 1) |-> 0]
    /\ frame_index = 0
    /\ noise_index = 0
    /\ sample = 0
    /\ noise_intensity = 0
    /\ written = [i \in 0 .. (FrameLen - 1) |-> 0]
    /\ moved = NoCounts
    /\ reacted = NoCounts
    /\ prev_counter = 1
    /\ increments = 1
    /\ skipped = {}
    /\ passed = {}
    /\ phases = <<"increment">>
    /\ dispatched = <<>>

\* A cell and its four neighbours, where the grid has room for them.
PlusShapes ==
    {{c, <<c[1], c[2] + 1>>, <<c[1] + 1, c[2]>>, <<c[1], c[2] - 1>>,
      <<c[1] - 1, c[2]>>} :
        c \in {d \in Coords : /\ InBounds(d[1] - 1, d[2] - 1)
                               /\ InBounds(d[1] + 1, d[2] + 1)}}

\* update() has finished its movement pass over a grid of at most three
\* particles, or of a particle with all four neighbours.
InitDiffuse ==
    /\ \E S \in CellSets(3) \cup PlusShapes : \E f \in [S -> DiffuseParticles] :
          /\ cells = GridOf(S, f)
          /\ ident = IdentOf(S)
    /\ update_counter = 2
    /\ pc = "move"
    /\ DiffuseRest

NextDiffuse == DiffusionPass

SpecDiffuse == InitDiffuse /\ [][NextDiffuse]_vars

\* ================================================================ claims
\* Helpers of the statements below.
Min(a, b) == IF a < b THEN a ELSE b

\* The quotient truncated toward zero, written out for the statements.
TruncQuot(a, b) == IF a >= 0 THEN a \div b ELSE -((-a) \div b)

Rendering == pc \in {"render", "rendered"}

\* The pixels render() has finished, and the cell each one shows.
PixelsDone == IF Rendering /\ panic = "" THEN 0 .. (cursor - 1) ELSE {}
PixelCell(i) == cells[ScanX(i)][ScanY(i)]

\* ---------------------------------------------------------------- C7
\* The call of render() has ended: it returned, or it panicked.
RenderEnded == Rendering /\ (pc = "rendered" \/ panic # "")

\* The three colour bytes of pixel i in the frame.
PixelBytes(i) == <<frame[4 * i], frame[4 * i + 1], frame[4 * i + 2]>>

\* C7: for any grid contents, render() writes each of the bytes
\* 0 .. 4*W*H-1 exactly once and nothing beyond them, never reads the frame,
\* and every alpha byte is 255.  While the call runs no byte has been
\* written twice and none at 4*W*H or beyond, every alpha byte written is
\* 255, and the pixel written last holds the colour of its cell and noise
\* sample whatever the buffer held before; when the call has ended, every
\* byte below 4*W*H has been written.
RenderWritesWholeFrame ==
    /\ Rendering =>
          /\ \A i \in DOMAIN written :
                /\ written[i] <= 1
                /\ i >= 4 * NumCells => written[i] = 0
          /\ \A i \in DOMAIN frame :
                (written[i] = 1 /\ i % 4 = 3) => frame[i] = 255
          /\ (panic = "" /\ cursor > 0) =>
                PixelBytes(cursor - 1) = PixelColor(PixelCell(cursor - 1), sample)
    /\ RenderEnded =>
          \A i \in 0 .. (4 * NumCells - 1) : written[i] = 1

\* ---------------------------------------------------------------- C8
\* C8: the pixel rendered last, when it shows a particle of temperature
\* t >= 0, has red = min(255, r + min(t, 255)), r being the particle's base
\* red after the jitter by the pixel's noise sample, clamped to [0, 255].
RedSaturates ==
    \A i \in PixelsDone :
        (i = cursor - 1 /\ IsSome(PixelCell(i))
           /\ Unwrap(PixelCell(i)).tempature >= 0) =>
            LET p == Unwrap(PixelCell(i))
                r == Jitter(BaseColor(p), NoiseIntensity(p), sample)[1]
            IN  /\ r \in 0 .. 255
                /\ frame[4 * i] = Min(255, r + Min(p.tempature, 255))

\* A particle at +1000 whose jittered red is above 0 was rendered with
\* red 255: the sum passed 255 and did not wrap.
RedSaturatesWitness ==
    \E i \in PixelsDone :
        /\ i = cursor - 1 /\ IsSome(PixelCell(i))
        /\ Unwrap(PixelCell(i)).tempature = 1000
        /\ Jitter(BaseColor(Unwrap(PixelCell(i))),
                  NoiseIntensity(Unwrap(PixelCell(i))), sample)[1] > 0
        /\ sample # 0
        /\ frame[4 * i] = 255

\* --------------------------------------------------------------- C10
\* C10: every pixel render() has finished that shows an empty cell holds
\* (20, 20, 20, 255), whatever its noise sample was.
EmptyCellsRenderDefault ==
    \A i \in PixelsDone :
        ~IsSome(PixelCell(i)) =>
            /\ frame[4 * i] = 20
            /\ frame[4 * i + 1] = 20
            /\ frame[4 * i + 2] = 20
            /\ frame[4 * i + 3] = 255

\* render() has returned from an all-empty grid, the last pixel's noise
\* sample being the largest one, and the buffer is uniform.
EmptyGridRenderedWitness ==
    /\ pc = "rendered" /\ panic = ""
    /\ AllNone(cells)
    /\ sample = NoiseScale
    /\ \A i \in 0 .. (NumCells - 1) :
          <<frame[4 * i], frame[4 * i + 1], frame[4 * i + 2], frame[4 * i + 3]>>
              = <<20, 20, 20, 255>>


\* ------------------------------------------------------------- C3, C4
\* The diffusion pass has run to its end.
Diffused == pc = "diffused" /\ panic = ""

Temp(grid, x, y) == Unwrap(grid[x][y]).tempature

\* The neighbour of (x, y) in direction d, and whether it holds a particle.
NeighbourOf(x, y, d) == <<x + Directions[d][1], y + Directions[d][2]>>
HasNeighbour(grid, x, y, d) ==
    LET n == NeighbourOf(x, y, d)
    IN  InBounds(n[1], n[2]) /\ IsSome(grid[n[1]][n[2]])

PairTc(grid, x, y, d) ==
    LET n == NeighbourOf(x, y, d)
    IN  thermal_conductivity(Unwrap(grid[x][y]).ptype)
          + thermal_conductivity(Unwrap(grid[n[1]][n[2]]).ptype)

\* What (x, y) gives to, and gets from, its neighbour in direction d,
\* computed from the temperatures of grid.
FlowOut(grid, x, y, d) ==
    IF HasNeighbour(grid, x, y, d)
    THEN TruncQuot(Temp(grid, x, y), PairTc(grid, x, y, d))
    ELSE 0
FlowIn(grid, x, y, d) ==
    IF HasNeighbour(grid, x, y, d)
    THEN LET n == NeighbourOf(x, y, d)
         IN  TruncQuot(Temp(grid, n[1], n[2]), PairTc(grid, x, y, d))
    ELSE 0

\* t0(c) - SUM_n trunc(t0(c) / tc) + SUM_n trunc(t0(n) / tc)
SnapshotResult(grid, x, y) ==
    Temp(grid, x, y)
      - (FlowOut(grid, x, y, 1) + FlowOut(grid, x, y, 2)
           + FlowOut(grid, x, y, 3) + FlowOut(grid, x, y, 4))
      + (FlowIn(grid, x, y, 1) + FlowIn(grid, x, y, 2)
           + FlowIn(grid, x, y, 3) + FlowIn(grid, x, y, 4))

NeighbourCount(grid, x, y) ==
    Cardinality({d \in 1 .. 4 : HasNeighbour(grid, x, y, d)})

\* (x, y) and (x, y+1) hold particles that touch no other particle.
IsolatedPair(grid, x, y) ==
    /\ y + 1 \in Ys
    /\ IsSome(grid[x][y]) /\ IsSome(grid[x][y + 1])
    /\ NeighbourCount(grid, x, y) = 1
    /\ NeighbourCount(grid, x, y + 1) = 1

\* C3 as stated: after a pass over an isolated vertical pair the top holds
\* t1 - trunc(t1/tc) and the bottom t2 + trunc(t1/tc).
PairOneWayFlow ==
    Diffused =>
        \A c \in Coords :
            IsolatedPair(cells_copy, c[1], c[2]) =>
                LET x == c[1]
                    y == c[2]
                    q1 == TruncQuot(Temp(cells_copy, x, y), PairTc(cells_copy, x, y, 1))
                IN  /\ Temp(cells, x, y) = Temp(cells_copy, x, y) - q1
                    /\ Temp(cells, x, y + 1) = Temp(cells_copy, x, y + 1) + q1

\* C3, amended: the bottom particle's own flow trunc(t2/tc) goes back up in
\* the same pass, so a pass that completes leaves the top at
\* t1 - trunc(t1/tc) + trunc(t2/tc) and the bottom at
\* t2 + trunc(t1/tc) - trunc(t2/tc).
PairTwoWayFlow ==
    Diffused =>
        \A c \in Coords :
            IsolatedPair(cells_copy, c[1], c[2]) =>
                LET x == c[1]
                    y == c[2]
                    tc == PairTc(cells_copy, x, y, 1)
                    q1 == TruncQuot(Temp(cells_copy, x, y), tc)
                    q2 == TruncQuot(Temp(cells_copy, x, y + 1), tc)
                IN  /\ Temp(cells, x, y) = Temp(cells_copy, x, y) - q1 + q2
                    /\ Temp(cells, x, y + 1) = Temp(cells_copy, x, y + 1) + q1 - q2

\* Two Water particles at -10, one above the other and alone, have been
\* through a pass and are both still at -10.
WaterPairWitness ==
    /\ Diffused
    /\ \E c \in Coords :
          /\ IsolatedPair(cells_copy, c[1], c[2])
          /\ Unwrap(cells_copy[c[1]][c[2]]).ptype = "Water"
          /\ Unwrap(cells_copy[c[1]][c[2] + 1]).ptype = "Water"
          /\ Temp(cells_copy, c[1], c[2]) = -10
          /\ Temp(cells_copy, c[1], c[2] + 1) = -10
          /\ Temp(cells, c[1], c[2]) = -10
          /\ Temp(cells, c[1], c[2] + 1) = -10

\* C4 as stated: after the pass every particle holds the value of the
\* formula over the pre-pass temperatures, as an unbounded integer.
SnapshotFlowsExact ==
    Diffused =>
        \A c \in Coords :
            IsSome(cells_copy[c[1]][c[2]]) =>
                /\ IsSome(cells[c[1]][c[2]])
                /\ Temp(cells, c[1], c[2]) = SnapshotResult(cells_copy, c[1], c[2])

\* C4, amended: after a pass that completes every particle holds the value
\* of the formula over the pre-pass temperatures reduced to the 16 bits of
\* the temperature field; no flow depends on a value written during the pass.
SnapshotFlowsI16 ==
    Diffused =>
        \A c \in Coords :
            IsSome(cells_copy[c[1]][c[2]]) =>
                /\ IsSome(cells[c[1]][c[2]])
                /\ Temp(cells, c[1], c[2])
                     = WrapI16(SnapshotResult(cells_copy, c[1], c[2]))
                /\ FitsI16(SnapshotResult(cells_copy, c[1], c[2])) =>
                     Temp(cells, c[1], c[2]) = SnapshotResult(cells_copy, c[1], c[2])

\* A pass has completed in which a particle with two neighbours changed its
\* temperature, one neighbour having been swept before it and one after.
SnapshotFlowsWitness ==
    /\ Diffused
    /\ \E c \in Coords :
          /\ IsSome(cells_copy[c[1]][c[2]])
          /\ NeighbourCount(cells_copy, c[1], c[2]) >= 2
          /\ HasNeighbour(cells_copy, c[1], c[2], 1)
          /\ HasNeighbour(cells_copy, c[1], c[2], 4)
          /\ Temp(cells, c[1], c[2]) # Temp(cells_copy, c[1], c[2])


\* ---------------------------------------------------------------- C1
\* C1: within one update() no particle has its move hook dispatched more
\* than once, the hooks relocating only their own particle.
MovedAtMostOnce == \A i \in DOMAIN moved : moved[i] <= 1

\* The movement pass has ended; a particle was dispatched, relocated to a
\* cell the sweep reached later, and skipped there for its stamp.
MovedAndSkippedWitness ==
    /\ pc = "move" /\ cursor = NumCells /\ panic = ""
    /\ skipped = {update_counter}
    /\ \E c \in Coords :
          /\ IsSome(cells[c[1]][c[2]])
          /\ moved[ident[c[1]][c[2]]] = 1
          /\ ident[c[1]][c[2]] < c[1] * SIMULATION_HEIGHT + c[2] + 1

\* ---------------------------------------------------------------- C2
\* C2: within one update() no particle has its reaction hook dispatched more
\* than once, whatever the hooks do to the grid.
ReactedAtMostOnce == \A i \in DOMAIN reacted : reacted[i] <= 1

\* ---------------------------------------------------------------- C5
\* C5: thermal_conductivity is above 1 for each of the 11 types, its assert
\* never fails, and the divisor of every pair of touching particles the
\* diffusion pass met is at least 4.
ConductivityAboveOne ==
    /\ \A t \in ParticleType :
          ConductivityAssert(t) /\ thermal_conductivity(t) > 1
    /\ panic # "assert"
    /\ pc = "diffused" =>
          \A c \in Coords : \A d \in 1 .. 4 :
              (IsSome(cells_copy[c[1]][c[2]]) /\ HasNeighbour(cells_copy, c[1], c[2], d))
                  => PairTc(cells_copy, c[1], c[2], d) >= 4

\* A pass has completed over two touching particles whose divisor is 4.
SmallestDivisorWitness ==
    /\ Diffused
    /\ \E c \in Coords : \E d \in 1 .. 4 :
          /\ IsSome(cells_copy[c[1]][c[2]])
          /\ HasNeighbour(cells_copy, c[1], c[2], d)
          /\ PairTc(cells_copy, c[1], c[2], d) = 4

\* ---------------------------------------------------------------- C6
\* C6: update_counter is always in 1 .. 255; every increment took c < 255 to
\* c + 1 and 255 to 1; an update() that returns has applied two; and no pass
\* ever skipped a particle whose stamp is 0.
CounterNeverZero ==
    /\ update_counter \in 1 .. 255
    /\ increments > 0 =>
          update_counter = IF prev_counter < 255 THEN prev_counter + 1 ELSE 1
    /\ Returned => increments = 2
    /\ 0 \notin skipped

\* The counter has gone from 255 to 1, and the movement pass of generation 1
\* has dispatched and stamped a particle that was fresh (stamp 0).
CounterWrappedWitness ==
    /\ prev_counter = 255 /\ update_counter = 1
    /\ pc = "move" /\ cursor = NumCells /\ panic = ""
    /\ \E c \in Coords :
          /\ IsSome(before[c[1]][c[2]])
          /\ Unwrap(before[c[1]][c[2]]).last_update = 0
          /\ IsSome(cells[c[1]][c[2]])
          /\ Unwrap(cells[c[1]][c[2]]).last_update = 1

\* ---------------------------------------------------------------- C9
Updating == pc \in {"move", "diffused", "interact"}

\* C9: an update() called on a grid whose cells are all None keeps them all
\* None, dispatches no hook, skips nothing and does not panic; the counter
\* alone advances, by one per pass, from 1 to 3 on return.
EmptyGridStaysEmpty ==
    (Updating /\ AllNone(before)) =>
        /\ AllNone(cells)
        /\ moved = NoCounts /\ reacted = NoCounts
        /\ skipped = {}
        /\ panic = ""
        /\ update_counter = 1 + increments
        /\ Returned => update_counter = 3

\* update() has returned from a grid that was empty when it was called.
EmptyGridUpdatedWitness ==
    /\ Returned
    /\ AllNone(before) /\ AllNone(cells)
    /\ cells_copy = EmptyGrid
    /\ update_counter = 3

\* --------------------------------------------------------------- C11
\* The absolute value of an integer, as mathematics has it.
Magnitude(t) == IF t < 0 THEN -t ELSE t

\* C11: the pixel rendered last, when it shows a particle of temperature
\* t < 0, has blue = min(255, b + min(|t|, 255)), b being the particle's base
\* blue after the jitter, and its red is the jittered red with no tint; this
\* for every t of the i16 range, the most negative one included.
BlueSaturates ==
    \A i \in PixelsDone :
        (i = cursor - 1 /\ IsSome(PixelCell(i))
           /\ Unwrap(PixelCell(i)).tempature < 0) =>
            LET p == Unwrap(PixelCell(i))
                c == Jitter(BaseColor(p), NoiseIntensity(p), sample)
            IN  /\ frame[4 * i + 2] = Min(255, c[3] + Min(Magnitude(p.tempature), 255))
                /\ frame[4 * i] = c[1]

\* --------------------------------------------------------------- C12
\* The phases of update(), in the order of the source.
PhaseOrder == <<"increment", "move", "diffuse", "increment", "react">>

Without(seq, S) == SelectSeq(seq, LAMBDA e : e \notin S)

\* A sweep over a grid with nothing to dispatch leaves no entry.
PhaseLogs ==
    {Without(SubSeq(PhaseOrder, 1, n), S) :
        n \in 0 .. Len(PhaseOrder), S \in SUBSET {"move", "react"}}

\* The cell a particle was in when update() was called.
HomeOf(id) ==
    <<(id - 1) \div SIMULATION_HEIGHT, (id - 1) % SIMULATION_HEIGHT>>

\* C12: the log of an update() is always a prefix of increment, movement
\* dispatches, diffusion, increment, reaction dispatches.  While the movement
\* sweep runs no snapshot exists, no temperature has changed and no reaction
\* hook has been dispatched; the snapshot holds particles that all carry the
\* movement generation (the sweep was complete); no reaction hook is
\* dispatched before the diffusion; and on return both increments and the
\* diffusion have happened and every particle with a reaction hook has had it
\* dispatched.
PhasesInOrder ==
    /\ phases \in PhaseLogs
    /\ pc = "move" =>
          /\ cells_copy = EmptyGrid
          /\ reacted = NoCounts
          /\ increments = 1
          /\ \A c \in Coords :
                IsSome(cells[c[1]][c[2]]) =>
                    LET h == HomeOf(ident[c[1]][c[2]])
                    IN  Temp(cells, c[1], c[2]) = Temp(before, h[1], h[2])
    /\ pc = "diffused" =>
          /\ reacted = NoCounts
          /\ increments = 1
          /\ \A c \in Coords :
                /\ IsSome(cells_copy[c[1]][c[2]]) <=> IsSome(cells[c[1]][c[2]])
                /\ IsSome(cells_copy[c[1]][c[2]]) =>
                      Unwrap(cells_copy[c[1]][c[2]]).last_update = update_counter
    /\ pc = "interact" =>
          /\ increments = 2
          /\ Without(phases, {"move", "react"})
               = <<"increment", "diffuse", "increment">>
    /\ Returned =>
          \A c \in Coords :
              (IsSome(cells[c[1]][c[2]])
                 /\ ReactHook(Unwrap(cells[c[1]][c[2]]).ptype) # "none")
                  => reacted[ident[c[1]][c[2]]] = 1

\* update() has returned having gone through all five phases, the diffusion
\* having changed a temperature.
PhasesCompleteWitness ==
    /\ Returned
    /\ phases = PhaseOrder
    /\ \E c \in Coords :
          /\ IsSome(cells_copy[c[1]][c[2]])
          /\ IsSome(cells[c[1]][c[2]])
          /\ Temp(cells, c[1], c[2]) # Temp(cells_copy, c[1], c[2])

\* --------------------------------------------------------------- C13
\* The particles the claim sends to each strategy.
PowderTypes(p) ==
    p.ptype = "Sand" \/ (p.ptype = "Plant" /\ p.extra_data2 = 0)
SolidTypes(p) ==
    p.ptype \in {"WetSand", "Cryotheum"}
      \/ (p.ptype = "Glass" /\ p.tempature < 30)
LiquidTypes(p) ==
    p.ptype \in {"Water", "Acid"}
      \/ (p.ptype = "Glass" /\ p.tempature >= 30)
ElectricTypes(p) == p.ptype = "Electricity"
StationaryTypes(p) ==
    p.ptype \in {"Iridium", "Replicator", "Unstable"}
      \/ (p.ptype = "Plant" /\ p.extra_data2 # 0)

\* C13: whenever the movement pass has dispatched a particle, the hook it
\* chose is the powder one exactly for Sand and a Plant with extra_data2 = 0,
\* the solid one exactly for WetSand, Cryotheum and Glass below 30, the
\* liquid one exactly for Water, Acid and Glass at 30 or above, the electric
\* one exactly for Electricity, and none for Iridium, Replicator, Unstable
\* and any other Plant, which stay where they are.
StrategyByType ==
    dispatched # <<>> =>
        LET d == dispatched[1]
        IN  /\ d.hook = "move_powder" <=> PowderTypes(d.particle)
            /\ d.hook = "move_solid" <=> SolidTypes(d.particle)
            /\ d.hook = "move_liquid" <=> LiquidTypes(d.particle)
            /\ d.hook = "move_electricity" <=> ElectricTypes(d.particle)
            /\ d.hook = "none" <=> StationaryTypes(d.particle)
            /\ d.hook = "none" => (d.pos = d.from /\ moved[d.id] = 0)

\* Glass at exactly 30 has been dispatched to the liquid hook, which moved it.
GlassAtThresholdWitness ==
    /\ dispatched # <<>>
    /\ panic = ""
    /\ dispatched[1].particle.ptype = "Glass"
    /\ dispatched[1].particle.tempature = 30
    /\ dispatched[1].hook = "move_liquid"
    /\ dispatched[1].pos # dispatched[1].from

\* --------------------------------------------------------------- C14
\* The movement loops have ended.
MovementEnded == pc = "move" /\ cursor = NumCells

\* C14: with move hooks that relocate only their own particle, the stamping
\* never fails; after each dispatch, stationary types included, the cell at
\* the resulting coordinates holds the dispatched particle carrying the
\* current generation; and when the movement loops end every particle in the
\* grid carries it.
StampedAfterDispatch ==
    pc = "move" =>
        /\ panic = ""
        /\ dispatched # <<>> =>
              LET d == dispatched[1]
              IN  /\ IsSome(cells[d.pos[1]][d.pos[2]])
                  /\ ident[d.pos[1]][d.pos[2]] = d.id
                  /\ Unwrap(cells[d.pos[1]][d.pos[2]]).last_update = update_counter
        /\ MovementEnded =>
              \A c \in Coords :
                  IsSome(cells[c[1]][c[2]]) =>
                      Unwrap(cells[c[1]][c[2]]).last_update = update_counter

\* The movement loops have ended over two particles: one that a hook
\* relocated and a stationary one dispatched last, both stamped.
AllStampedWitness ==
    /\ MovementEnded /\ panic = ""
    /\ dispatched # <<>>
    /\ dispatched[1].hook = "none"
    /\ Unwrap(cells[dispatched[1].pos[1]][dispatched[1].pos[2]]).last_update
         = update_counter
    /\ \E c \in Coords :
          /\ IsSome(cells[c[1]][c[2]])
          /\ moved[ident[c[1]][c[2]]] = 1
          /\ HomeOf(ident[c[1]][c[2]]) # c
          /\ Unwrap(cells[c[1]][c[2]]).last_update = update_counter

\* --------------------------------------------------------------- C15
\* The coordinates the last dispatch returned cannot be stamped: they are
\* outside the grid, or no particle is there.
ReturnedUnstampable ==
    /\ dispatched # <<>>
    /\ LET at == dispatched[1].pos
       IN  \/ ~InBounds(at[1], at[2])
           \/ ~IsSome(cells[at[1]][at[2]])

\* C15: when a move hook returns coordinates outside the grid or of an empty
\* cell, update() panics at the stamp: no stamp has been written, to the
\* dispatched particle or to another one, and the call goes no further (no
\* snapshot, no second increment).  A panic of the movement pass has no
\* other cause.
StampPanicsOnBrokenContract ==
    /\ (pc = "move" /\ ReturnedUnstampable) =>
          /\ panic \in {"index", "unwrap"}
          /\ StampCount(cells, update_counter) = dispatched[1].stamps
    /\ panic # "" =>
          /\ pc = "move"
          /\ ReturnedUnstampable
          /\ cells_copy = EmptyGrid
          /\ increments = 1
          /\ reacted = NoCounts
    /\ (pc = "move" /\ dispatched # <<>> /\ ~ReturnedUnstampable) =>
          /\ panic = ""
          /\ StampCount(cells, update_counter) = dispatched[1].stamps + 1

\* A hook destroyed its particle and returned its old coordinates: update()
\* panicked on the unwrap, leaving a particle further along the sweep
\* unprocessed.
DestroyedPanicWitness ==
    /\ panic = "unwrap"
    /\ ReturnedUnstampable
    /\ InBounds(dispatched[1].pos[1], dispatched[1].pos[2])
    /\ \E c \in Coords :
          /\ IsSome(cells[c[1]][c[2]])
          /\ Unwrap(cells[c[1]][c[2]]).last_update # update_counter

\* A hook returned coordinates outside the grid: update() panicked on the
\* index.
AstrayPanicWitness ==
    /\ panic = "index"
    /\ ReturnedUnstampable
    /\ ~InBounds(dispatched[1].pos[1], dispatched[1].pos[2])

\* --------------------------------------------------------------- C16
\* C16 as stated: the noise intensity render() computed for a particle lies
\* in 0 .. 200, and is 200 for Electricity only.
IntensityWithin200 ==
    \A i \in PixelsDone :
        IsSome(PixelCell(i)) =>
            /\ noise_intensity \in 0 .. 200
            /\ noise_intensity = 200 => Unwrap(PixelCell(i)).ptype = "Electricity"

\* C16, amended: for every type but Unstable the intensity lies in 0 .. 200
\* and is 200 exactly for Electricity; for Unstable it is 0 at t <= 0 and
\* the truncated t / 20 at t > 0, which is 200 for t in 4000 .. 4019, above
\* 200 from t = 4020 on and 1638 at t = 32767.
IntensityByType ==
    \A i \in PixelsDone :
        IsSome(PixelCell(i)) =>
            LET p == Unwrap(PixelCell(i))
            IN  /\ noise_intensity >= 0
                /\ p.ptype # "Unstable" =>
                      /\ noise_intensity \in {0, 5, 10, 30, 50, 200}
                      /\ noise_intensity = 200 <=> p.ptype = "Electricity"
                /\ p.ptype = "Unstable" =>
                      noise_intensity
                        = IF p.tempature > 0 THEN p.tempature \div 20 ELSE 0

\* An Unstable particle at the top of the temperature range has been
\* rendered with intensity 1638.
HotUnstableWitness ==
    \E i \in PixelsDone :
        /\ IsSome(PixelCell(i))
        /\ Unwrap(PixelCell(i)).ptype = "Unstable"
        /\ Unwrap(PixelCell(i)).tempature = I16Max
        /\ noise_intensity = 1638

\* --------------------------------------------------------------- C17
\* The sum of the temperatures of the particles in cells i .. NumCells-1.
RECURSIVE TempSumFrom(_, _)
TempSumFrom(grid, i) ==
    IF i >= NumCells THEN 0
    ELSE (IF IsSome(grid[SweepX(i)][SweepY(i)])
          THEN Temp(grid, SweepX(i), SweepY(i)) ELSE 0)
         + TempSumFrom(grid, i + 1)

TempSum(grid) == TempSumFrom(grid, 0)

\* No particle's temperature, as the exchange formula gives it, is outside
\* the i16 range.
StaysInRange(grid) ==
    \A c \in Coords :
        IsSome(grid[c[1]][c[2]]) => FitsI16(SnapshotResult(grid, c[1], c[2]))

\* C17: after a diffusion pass that completes, the sum of all temperatures
\* equals the sum before the pass whenever no particle's temperature leaves
\* the i16 range, and equals it modulo 2^16 in any case.
HeatConserved ==
    Diffused =>
        /\ StaysInRange(cells_copy) => TempSum(cells) = TempSum(cells_copy)
        /\ (TempSum(cells) - TempSum(cells_copy)) % 65536 = 0

\* A pass has completed in which heat moved between particles, every
\* temperature staying in range, and the sum is what it was.
HeatMovedWitness ==
    /\ Diffused
    /\ StaysInRange(cells_copy)
    /\ TempSum(cells) = TempSum(cells_copy)
    /\ TempSum(cells) # 0
    /\ \E c \in Coords :
          /\ IsSome(cells_copy[c[1]][c[2]])
          /\ NeighbourCount(cells_copy, c[1], c[2]) >= 2
          /\ Temp(cells, c[1], c[2]) # Temp(cells_copy, c[1], c[2])

\* --------------------------------------------------------------- C18
AllAtLeastZero(grid) ==
    \A c \in Coords : IsSome(grid[c[1]][c[2]]) => Temp(grid, c[1], c[2]) >= 0
AllAtMostZero(grid) ==
    \A c \in Coords : IsSome(grid[c[1]][c[2]]) => Temp(grid, c[1], c[2]) <= 0

\* C18 as stated: a pass over temperatures that are all >= 0 leaves them all
\* >= 0, and likewise for <= 0.
SignPreserved ==
    Diffused =>
        /\ AllAtLeastZero(cells_copy) => AllAtLeastZero(cells)
        /\ AllAtMostZero(cells_copy) => AllAtMostZero(cells)

\* C18, amended: a pass that completes over temperatures that are all >= 0
\* leaves them all >= 0, and likewise for <= 0, provided no particle's
\* temperature leaves the i16 range; a temperature that does leave it wraps
\* round to the other sign.
SignPreservedInRange ==
    (Diffused /\ StaysInRange(cells_copy)) =>
        /\ AllAtLeastZero(cells_copy) => AllAtLeastZero(cells)
        /\ AllAtMostZero(cells_copy) => AllAtMostZero(cells)

\* A pass has completed over touching particles that were all below zero,
\* heat has moved, and they are all still below zero.
ColdStaysColdWitness ==
    /\ Diffused
    /\ StaysInRange(cells_copy)
    /\ AllAtMostZero(cells_copy) /\ AllAtMostZero(cells)
    /\ \E c \in Coords :
          /\ IsSome(cells_copy[c[1]][c[2]])
          /\ NeighbourCount(cells_copy, c[1], c[2]) >= 2
          /\ Temp(cells_copy, c[1], c[2]) < 0
          /\ Temp(cells, c[1], c[2]) # Temp(cells_copy, c[1], c[2])

\* --------------------------------------------------------------- C19
\* p and q differ in their temperature at most.
SameButTempature(p, q) ==
    /\ p.ptype = q.ptype
    /\ p.extra_data1 = q.extra_data1
    /\ p.extra_data2 = q.extra_data2
    /\ p.last_update = q.last_update

\* C19: when the diffusion pass has ended, by returning or by panicking, the
\* occupied cells are those of the snapshot, every particle has the type,
\* extra_data1, extra_data2 and last_update it had, and a particle with no
\* occupied axis-adjacent neighbour has the temperature it had.
DiffusionTouchesTempatureOnly ==
    pc = "diffused" =>
        \A c \in Coords :
            /\ IsSome(cells[c[1]][c[2]]) <=> IsSome(cells_copy[c[1]][c[2]])
            /\ IsSome(cells_copy[c[1]][c[2]]) =>
                  /\ SameButTempature(Unwrap(cells[c[1]][c[2]]),
                                      Unwrap(cells_copy[c[1]][c[2]]))
                  /\ NeighbourCount(cells_copy, c[1], c[2]) = 0 =>
                        Temp(cells, c[1], c[2]) = Temp(cells_copy, c[1], c[2])

\* A pass has completed that changed the temperature of a stamped particle
\* and nothing else of it.
OnlyTempatureChangedWitness ==
    /\ Diffused
    /\ \E c \in Coords :
          /\ IsSome(cells_copy[c[1]][c[2]])
          /\ IsSome(cells[c[1]][c[2]])
          /\ Temp(cells, c[1], c[2]) # Temp(cells_copy, c[1], c[2])
          /\ Unwrap(cells[c[1]][c[2]]).last_update = 2
          /\ Unwrap(cells[c[1]][c[2]]).ptype = "Cryotheum"
          /\ SameButTempature(Unwrap(cells[c[1]][c[2]]),
                              Unwrap(cells_copy[c[1]][c[2]]))

\* A pass has completed over two particles on a diagonal: neither has a
\* neighbour and both kept their temperatures.
IsolatedKeepsTempatureWitness ==
    /\ Diffused
    /\ \E c \in Coords :
          /\ IsSome(cells_copy[c[1]][c[2]])
          /\ NeighbourCount(cells_copy, c[1], c[2]) = 0
          /\ Temp(cells_copy, c[1], c[2]) = 1000
          /\ Temp(cells, c[1], c[2]) = 1000
          /\ \E e \in Coords : e # c /\ IsSome(cells_copy[e[1]][e[2]])

\* --------------------------------------------------------------- C20
\* The generation of the running call's movement pass.
MoveGeneration == IF pc = "interact" THEN prev_counter ELSE update_counter

\* The stamp a particle carried when update() was called.
StampAtCall(id) == Unwrap(before[HomeOf(id)[1]][HomeOf(id)[2]]).last_update

\* C20: over any number of update() calls, a particle the movement pass
\* skipped had been stamped by that pass (the stamp it carried when the call
\* began was not that pass's generation), and the interaction pass, which
\* stamps nothing, skipped no particle: a stamp left by an earlier call never
\* equals the current generation.
SkippedOnlyIfStampedInPass ==
    \A e \in passed :
        /\ e[1] = "move"
        /\ StampAtCall(e[2]) # MoveGeneration

====
